---------------------------- MODULE Spec2Model ----------------------------
(***************************************************************************)
(* A model of map-snap-maker's overlay compositor:                         *)
(*   - calculateCrop (lib/canvasRenderer.ts), the 4:3 / 3:4 auto-crop;     *)
(*   - the PreviewCanvas component: the preview effect with its in-flight  *)
(*     renderPreview calls, and the size-constrained export loop;          *)
(*   - drawOverlay: the auto-fit text loop and the draw sequence with its  *)
(*     asset loads.                                                        *)
(* Lengths that the code holds as fractions are kept exact as integers in  *)
(* a fixed unit (no IEEE rounding of products); the two loops whose exit   *)
(* depends on accumulated IEEE-754 error carry that error explicitly.      *)
(***************************************************************************)
EXTENDS Integers, Sequences, FiniteSets, TLC

VARIABLES
    \* ---- calculateCrop ----
    srcW,           \* image.naturalWidth
    srcH,           \* image.naturalHeight
    crop,           \* the record calculateCrop returned, or NoCrop before the call
    \* ---- PreviewCanvas component ----
    image,          \* props.image is not null
    location,       \* props.location is not null
    weatherData,    \* props.weatherData is there
    renderer,       \* the renderPreview in use: "direct" draws on the canvas it is
                    \* given, "offscreen" composes aside and copies at the end
    renderIdRef,    \* renderIdRef.current
    renders,        \* currentId -> where that safeRender() call is suspended
    canvas,         \* the visible <canvas>: who sized it, who drew on it since
    downloading,    \* useState(false)
    exportPc,       \* where handleDownload / handleDownloadCompressed is suspended
    quality,        \* let quality, as an IEEE double (see Dbl)
    scale,          \* let scale, as an IEEE double
    blob,           \* the blob of the last getBlob: "none", "over", "under"
    attempts,       \* getBlob calls of the running or last export
    exportOutcome,  \* how the last export ended
    calls,          \* the calls of renderPreview / renderGeoTagImage made so far:
                    \* who called, and which arguments were there
    encoded,        \* the surface the last getBlob handed to toBlob, or NoSurface
    \* ---- one renderPreview / drawOverlay call ----
    input,          \* canvasW, canvasH, the texts' words, proSettings toggles,
                    \* whether an API key, a countryCode, weatherData are there
    ovPc,           \* where the call is suspended
    currentScaleFactor, \* let currentScaleFactor, as an IEEE double
    wrappedTextData,    \* let wrappedTextData
    totalTextHeight,    \* let totalTextHeight, in 1/10 px
    trials,         \* passes of the body of while (true) so far
    loads,          \* how each asset load settled
    ops,            \* the layers painted on the context, in paint order
    ctxCalls,       \* the ctx.save() / ctx.restore() calls made on it, in order
    \* ---- one call of a function of the library ----
    arg,            \* the arguments of the call
    ret,            \* what the call returned, or NoRet before the call
    \* ---- the Google Maps script loader (lib/googleMaps) ----
    google,         \* window.google?.maps is there
    loadPromise,    \* let loadPromise: 0 for null, else the promise it holds
    promises,       \* the promises loadGoogleMaps created: how each stands
    scripts,        \* the <script> elements appended to document.head
    initGoogleMaps, \* window.__initGoogleMaps: 0 when undefined, else the
                    \* promise its closure resolves
    returned        \* what each loadGoogleMaps call returned, in call order:
                    \* a promise, or 0 for Promise.resolve()

cropVars == <<srcW, srcH, crop>>

previewVars == <<image, location, weatherData, renderer, renderIdRef, renders, canvas>>

exportVars == <<downloading, exportPc, quality, scale, blob, attempts, exportOutcome,
                calls, encoded>>

overlayVars == <<input, ovPc, currentScaleFactor, wrappedTextData, totalTextHeight,
                 trials, loads, ops, ctxCalls>>

callVars == <<arg, ret>>

loaderVars == <<google, loadPromise, promises, scripts, initGoogleMaps, returned>>

vars == <<srcW, srcH, crop,
          image, location, weatherData, renderer, renderIdRef, renders, canvas,
          downloading, exportPc, quality, scale, blob, attempts, exportOutcome, calls,
          encoded, input, ovPc, currentScaleFactor, wrappedTextData, totalTextHeight,
          trials, loads, ops, ctxCalls, arg, ret,
          google, loadPromise, promises, scripts, initGoogleMaps, returned>>

(***************************************************************************)
(* IEEE-754 doubles of the two countdown loops                             *)
(***************************************************************************)

\* A double reached by repeatedly subtracting a step from a start value:
\* n is the decimal value in hundredths, e = 1 when the accumulated rounding
\* error leaves the double strictly above the double of that decimal (0.8 - 0.1
\* is 0.7000000000000001, 2.49 - 0.01 is 2.4800000000000004), e = 0 when it is
\* exactly that double.  The error stays far below one hundredth.
Dbl(n) == [n |-> n, e |-> 0]

\* d > lit, lit a decimal literal in hundredths
DblGt(d, lit) == d.n > lit \/ (d.n = lit /\ d.e = 1)

\* d < lit
DblLt(d, lit) == d.n < lit

\* d <= lit
DblLeq(d, lit) == ~DblGt(d, lit)

\* x -= 0.1 on the values 1.0, 0.9, ... and 0.8, 0.7000000000000001, ...:
\* 1.0 - 0.1 and 0.9 - 0.1 are exact, every later difference is rounded up.
SubTenth(d) == [n |-> d.n - 10, e |-> IF d.n <= 80 THEN 1 ELSE d.e]

(***************************************************************************)
(* The PreviewCanvas component                                             *)
(***************************************************************************)

\* Preview requests (runs of the effect that start a render) the model follows.
MaxRequests == 2

Renderers == {"direct", "offscreen"}

RenderIds == 1..MaxRequests

\* <canvas> before anything sized or drew on it
Blank == [sizedBy |-> 0, painters |-> {}, last |-> 0]

\* canvas.width = dw; canvas.height = dh (which clears it); ctx.drawImage(...)
SizeAndDraw(id) == [sizedBy |-> id, painters |-> {id}, last |-> id]

\* any ctx.fill / fillText / drawImage of render `id` on the canvas
DrawOn(c, id) == [c EXCEPT !.painters = @ \cup {id}, !.last = id]

InFlight(st) == st \in {"font", "emoji", "icon", "map", "flag", "weather"}

\* The <canvas> element is unmounted (the placeholder is rendered instead):
\* calls still suspended keep drawing on the element they were given, which
\* is no longer shown.
Detach(rs) == [r \in RenderIds |-> IF InFlight(rs[r]) THEN "detached" ELSE rs[r]]

\* let quality = 0.8  (hundredths)
StartQuality == 80

\* let scale = 1.0
StartScale == 100

\* if (quality > 0.3)
QualityStepFloor == 30

\* while (... (quality > 0.1 || ...))
QualityFloor == 10

\* while (... (... || scale > 0.3))
ScaleFloor == 30

\* let currentScaleFactor = 2.5  (in hundredths)
StartScaleFactor == 250

\* const minScaleFactor = 0.5
minScaleFactor == 50

NoArg == [fn |-> "none"]

NoRet == [fn |-> "none"]

\* no getBlob has reached toBlob
NoSurface == [attempt |-> 0]

\* no library function called on its own
CallIdle == arg = NoArg /\ ret = NoRet

\* the module lib/googleMaps as loaded: let loadPromise = null, no script
LoaderIdle ==
    /\ google = FALSE
    /\ loadPromise = 0
    /\ promises = <<>>
    /\ scripts = <<>>
    /\ initGoogleMaps = 0
    /\ returned = <<>>

NoInput == [canvasW |-> 0, canvasH |-> 0, address |-> <<>>,
            showFullAddress |-> FALSE, showLatLong |-> FALSE, weatherData |-> FALSE]

NoLoads == [icon |-> "none", map |-> "none", flag |-> "none", weather |-> "none"]

\* no renderPreview call under way
OverlayIdle ==
    /\ input = NoInput
    /\ ovPc = "idle"
    /\ currentScaleFactor = Dbl(StartScaleFactor)
    /\ wrappedTextData = <<>>
    /\ totalTextHeight = 0
    /\ trials = 0
    /\ loads = NoLoads
    /\ ops = <<>>
    /\ ctxCalls = <<>>

ExportIdle ==
    /\ downloading = FALSE
    /\ exportPc = "idle"
    /\ quality = Dbl(StartQuality)
    /\ scale = Dbl(StartScale)
    /\ blob = "none"
    /\ attempts = 0
    /\ exportOutcome = "none"
    /\ calls = {}
    /\ encoded = NoSurface

PreviewIdle ==
    /\ image = FALSE
    /\ location = FALSE
    /\ renderIdRef = 0
    /\ renders = [r \in RenderIds |-> "none"]
    /\ canvas = Blank

ComponentIdle ==
    /\ PreviewIdle
    /\ weatherData = FALSE
    /\ renderer = "direct"
    /\ ExportIdle

Init ==
    /\ srcW = 1 /\ srcH = 1 /\ crop = [sx |-> -1, sy |-> -1, sw |-> -1, sh |-> -1,
                                       dx |-> -1, dy |-> -1, dw |-> -1, dh |-> -1]
    /\ PreviewIdle
    /\ weatherData \in BOOLEAN
    /\ renderer \in Renderers
    /\ ExportIdle
    /\ OverlayIdle
    /\ CallIdle
    /\ LoaderIdle

\* A call of renderPreview or renderGeoTagImage: by whom, whether the image
\* and location passed are there, whether weatherData is passed and there.
Call(by, img, loc, weather) ==
    [by |-> by, image |-> img, location |-> loc, weather |-> weather]

\* The effect with its guard left out.
effectRunsUnguarded(mounted, img, loc) == TRUE

\* if (!canvasRef.current || !image || !location) return;
effectRuns(mounted, img, loc) == mounted /\ img /\ loc

\* useEffect(..., [image, location, dateTime, proSettings, weatherData]) after
\* a change of props: img, loc say whether the new image / location are set.
\* The <canvas> is mounted (canvasRef.current set) when both are, the
\* placeholder is rendered in its place otherwise.
\*   if (!canvasRef.current || !image || !location) return;
\*   const currentId = ++renderIdRef.current;  safeRender();
\* safeRender runs renderPreview(canvas, image, location, dateTime,
\* proSettings, weatherData) up to its first await (font.load()): the direct
\* renderer has then sized the visible canvas and drawn the photo.
PropsChange(img, loc) ==
    /\ image' = img
    /\ location' = loc
    /\ IF effectRuns(img /\ loc, img, loc)
          THEN /\ renderIdRef < MaxRequests
               /\ renderIdRef' = renderIdRef + 1
               /\ renders' = [renders EXCEPT ![renderIdRef + 1] = "font"]
               /\ canvas' = IF renderer = "direct"
                               THEN SizeAndDraw(renderIdRef + 1)
                               ELSE canvas
               /\ calls' = calls \cup {Call("preview", img, loc, weatherData)}
          ELSE /\ renderIdRef' = renderIdRef
               /\ renders' = Detach(renders)
               /\ canvas' = Blank
               /\ calls' = calls
    /\ UNCHANGED <<weatherData, renderer, cropVars, overlayVars, callVars, loaderVars,
                   downloading, exportPc, quality, scale, blob, attempts, exportOutcome,
                   encoded>>

\* await font.load() settles.  A rejection leaves renderPreview (and the
\* safeRender promise nobody awaits) rejected.  Otherwise the direct renderer
\* goes on to await document.fonts.load(...); the offscreen one enters
\* drawOverlay, which paints the bar on its offscreen canvas and awaits the map.
FontSettles(r, ok) ==
    /\ renders[r] = "font"
    /\ renders' = [renders EXCEPT ![r] =
                     IF ~ok THEN "failed"
                     ELSE IF renderer = "direct" THEN "emoji" ELSE "map"]
    /\ UNCHANGED <<image, location, weatherData, renderer, renderIdRef, canvas, cropVars, exportVars, overlayVars, callVars, loaderVars>>

\* direct: await document.fonts.load(...) resolves; drawOverlay runs to
\* await loadBadgeIcon(), having filled the badge background on the canvas.
EmojiFontSettles(r) ==
    /\ renders[r] = "emoji"
    /\ renders' = [renders EXCEPT ![r] = "icon"]
    /\ canvas' = DrawOn(canvas, r)
    /\ UNCHANGED <<image, location, weatherData, renderer, renderIdRef, cropVars, exportVars, overlayVars, callVars, loaderVars>>

\* direct: loadBadgeIcon() settles (a rejection is caught); the icon, the
\* watermark text and the info box are painted, then await loadStaticMap(...).
IconSettles(r) ==
    /\ renders[r] = "icon"
    /\ renders' = [renders EXCEPT ![r] = "map"]
    /\ canvas' = DrawOn(canvas, r)
    /\ UNCHANGED <<image, location, weatherData, renderer, renderIdRef, cropVars, exportVars, overlayVars, callVars, loaderVars>>

\* loadStaticMap(...) settles (a rejection is caught and the placeholder is
\* painted).  direct: the map goes on the canvas; with a country code the flag
\* is awaited next, without one the text is painted and the call returns.
\* offscreen: map and text go on the offscreen canvas; with weather data the
\* weather icon is awaited next, without it the offscreen canvas is copied to
\* the visible one (canvas.width = dw; canvas.height = dh; drawImage).
MapSettles(r, more) ==
    /\ renders[r] = "map"
    /\ renderer = "offscreen" => more = weatherData
    /\ renders' = [renders EXCEPT ![r] =
                     IF ~more THEN "done"
                     ELSE IF renderer = "direct" THEN "flag" ELSE "weather"]
    /\ canvas' = IF renderer = "direct" THEN DrawOn(canvas, r)
                 ELSE IF more THEN canvas ELSE SizeAndDraw(r)
    /\ UNCHANGED <<image, location, weatherData, renderer, renderIdRef, cropVars, exportVars, overlayVars, callVars, loaderVars>>

\* direct: loadFlagImage(...) settles (a rejection is caught); the text block
\* is painted and renderPreview returns.
FlagSettles(r) ==
    /\ renders[r] = "flag"
    /\ renders' = [renders EXCEPT ![r] = "done"]
    /\ canvas' = DrawOn(canvas, r)
    /\ UNCHANGED <<image, location, weatherData, renderer, renderIdRef, cropVars, exportVars, overlayVars, callVars, loaderVars>>

\* offscreen: loadWeatherIcon(...) settles (a rejection is caught); the weather
\* block is painted offscreen and the offscreen canvas is copied to the
\* visible one.
WeatherSettles(r) ==
    /\ renders[r] = "weather"
    /\ renders' = [renders EXCEPT ![r] = "done"]
    /\ canvas' = SizeAndDraw(r)
    /\ UNCHANGED <<image, location, weatherData, renderer, renderIdRef, cropVars, exportVars, overlayVars, callVars, loaderVars>>

\* finalCanvas.width = tempCanvas.width * scale is 0 once scale has come down
\* to 1.4e-16: toBlob then calls back with null.
EmptyCanvas(s) == s.n <= 0

\* The possible results of getBlob(quality, scale): renderPreview rejected
\* (font.load), toBlob gave null, or a blob over / within 500 * 1024 bytes.
BlobResults(s) == IF EmptyCanvas(s) THEN {"rejected", "null"}
                                    ELSE {"rejected", "over", "under"}

\* The surface of getBlob number `attempt` with every attempt resampling the
\* canvas the first attempt rendered.
getBlobSurfaceReused(attempt, q, s) ==
    [attempt |-> attempt, rendered |-> 1, renderedAt |-> Dbl(StartScale),
     resampledBy |-> IF DblLt(s, StartScale) THEN s ELSE Dbl(StartScale),
     quality |-> q, scale |-> s]

\* What getBlob(quality, scale) number `attempt` hands to toBlob:
\*   const tempCanvas = document.createElement('canvas');
\*   await renderPreview(tempCanvas, image, location, dateTime, proSettings);
\* a canvas of its own, which renderPreview sizes by the crop of the image
\* (scale is not among its arguments: the composite is laid out at full
\* resolution, scale 1.0);
\*   if (scale < 1) { finalCanvas = ...; width = tempCanvas.width * scale; ...
\*                    finalCtx.drawImage(tempCanvas, 0, 0, width, height) }
\* then that canvas drawn smaller by the factor scale;
\*   finalCanvas.toBlob(..., 'image/jpeg', quality)
getBlobSurface(attempt, q, s) ==
    [attempt |-> attempt, rendered |-> attempt, renderedAt |-> Dbl(StartScale),
     resampledBy |-> IF DblLt(s, StartScale) THEN s ELSE Dbl(StartScale),
     quality |-> q, scale |-> s]

\* finally { setDownloading(false) } skipped when the try block threw.
finallyDownloadingSkipped(threw) == threw

\* finally { setDownloading(false) }: the flag after the handler's try
\* block ended, by return or by a throw.
finallyDownloading(threw) == FALSE

\* getBlob: await renderPreview(tempCanvas, image, location, dateTime,
\* proSettings), with no weatherData argument
getBlobCall(img, loc) == Call("compressed", img, loc, FALSE)

\* onClick={handleDownloadCompressed} (the button is disabled while
\* downloading).  ctxOk: canvas.getContext('2d') returned a context.
\*   if (!image || !location) return;  setDownloading(true);
\*   if (!ctx) throw ...;  quality = 0.8; scale = 1.0; blob = await getBlob(...)
ClickDownloadCompressed(ctxOk) ==
    /\ ~downloading
    /\ exportPc = "idle"
    /\ image /\ location
    /\ quality' = Dbl(StartQuality)
    /\ scale' = Dbl(StartScale)
    /\ blob' = "none"
    /\ encoded' = NoSurface
    /\ IF ctxOk
          THEN /\ downloading' = TRUE
               /\ exportPc' = "getBlob"
               /\ attempts' = 1
               /\ exportOutcome' = "none"
               /\ calls' = calls \cup {getBlobCall(image, location)}
          ELSE \* catch: alert(...); finally: setDownloading(false)
               /\ downloading' = finallyDownloading(TRUE)
               /\ exportPc' = "idle"
               /\ attempts' = 0
               /\ exportOutcome' = "noContext"
               /\ calls' = calls
    /\ UNCHANGED <<previewVars, cropVars, overlayVars, callVars, loaderVars>>

\* The condition under which the loop body runs again:
\*   blob.size > 500 * 1024 && (quality > 0.1 || scale > 0.3)
RetryWanted(b, q, s) ==
    /\ b = "over"
    /\ (DblGt(q, QualityFloor) \/ DblGt(s, ScaleFloor))

\* if (quality > 0.3) quality -= 0.1; else scale -= 0.1;
NextQuality(q) == IF DblGt(q, QualityStepFloor) THEN SubTenth(q) ELSE q

\* The adjustment with the scale lowered on every retry.
NextScaleAlways(q, s) == SubTenth(s)

NextScale(q, s) == IF DblGt(q, QualityStepFloor) THEN s ELSE SubTenth(s)

\* await getBlob(quality, scale) settles with result b, and the handler runs
\* on to its next await or to its end:
\*   - rejected, or blob null (blob.size throws): catch, alert, finally;
\*   - while condition true: adjust quality or scale, call getBlob again;
\*   - otherwise: the blob is handed to the user (a.click()), finally.
GetBlobSettles(b) ==
    /\ exportPc = "getBlob"
    /\ b \in BlobResults(scale)
    /\ encoded' = IF b = "rejected" THEN encoded
                                     ELSE getBlobSurface(attempts, quality, scale)
    /\ IF b \in {"rejected", "null"}
          THEN /\ exportOutcome' = IF b = "null" THEN "nullBlob" ELSE "renderFailed"
               /\ exportPc' = "idle"
               /\ downloading' = finallyDownloading(TRUE)
               /\ UNCHANGED <<quality, scale, blob, attempts, calls>>
          ELSE /\ blob' = b
               /\ IF RetryWanted(b, quality, scale)
                     THEN /\ quality' = NextQuality(quality)
                          /\ scale' = NextScale(quality, scale)
                          /\ attempts' = attempts + 1
                          \* image and location are those of the click
                          /\ calls' = calls \cup {getBlobCall(TRUE, TRUE)}
                          /\ UNCHANGED <<exportPc, downloading, exportOutcome>>
                     ELSE /\ exportOutcome' = "delivered"
                          /\ exportPc' = "idle"
                          /\ downloading' = finallyDownloading(FALSE)
                          /\ UNCHANGED <<quality, scale, attempts, calls>>
    /\ UNCHANGED <<previewVars, cropVars, overlayVars, callVars, loaderVars>>

\* onClick={handleDownload} (the button is disabled while downloading):
\*   if (!image || !location) return;  setDownloading(true);
\*   blob = await renderGeoTagImage(image, location, dateTime, proSettings,
\*                                  weatherData)
ClickDownload ==
    /\ ~downloading
    /\ exportPc = "idle"
    /\ image /\ location
    /\ downloading' = TRUE
    /\ exportPc' = "renderGeoTagImage"
    /\ exportOutcome' = "none"
    /\ calls' = calls \cup {Call("hd", image, location, weatherData)}
    /\ UNCHANGED <<quality, scale, blob, attempts, encoded>>
    /\ UNCHANGED <<previewVars, cropVars, overlayVars, callVars, loaderVars>>

\* await renderGeoTagImage(...) settles: with a blob, which is handed to the
\* user (a.click()); rejected (font.load), or with null (toBlob), which
\* URL.createObjectURL throws on: catch, console.error.  finally:
\* setDownloading(false).
RenderGeoTagImageSettles(res) ==
    /\ exportPc = "renderGeoTagImage"
    /\ exportOutcome' = IF res = "blob" THEN "hdDelivered" ELSE "hdFailed"
    /\ exportPc' = "idle"
    /\ downloading' = finallyDownloading(res # "blob")
    /\ UNCHANGED <<quality, scale, blob, attempts, calls, encoded>>
    /\ UNCHANGED <<previewVars, cropVars, overlayVars, callVars, loaderVars>>

Next ==
    \/ \E img \in BOOLEAN, loc \in BOOLEAN : PropsChange(img, loc)
    \/ \E r \in RenderIds, ok \in BOOLEAN : FontSettles(r, ok)
    \/ \E r \in RenderIds : EmojiFontSettles(r)
    \/ \E r \in RenderIds : IconSettles(r)
    \/ \E r \in RenderIds, more \in BOOLEAN : MapSettles(r, more)
    \/ \E r \in RenderIds : FlagSettles(r)
    \/ \E r \in RenderIds : WeatherSettles(r)
    \/ \E ctxOk \in BOOLEAN : ClickDownloadCompressed(ctxOk)
    \/ \E b \in {"rejected", "null", "over", "under"} : GetBlobSettles(b)
    \/ ClickDownload
    \/ \E res \in {"blob", "null", "rejected"} : RenderGeoTagImageSettles(res)

Spec == Init /\ [][Next]_vars

\* C1: the visible canvas only ever shows the most recently requested
\* composite: whenever the canvas changes, the composite that wrote to it is
\* the one whose id equals the current counter; an older composite that
\* settles after a newer request never draws over or replaces the newer one.
C1_OnlyLatestPresented ==
    [][canvas' # canvas /\ canvas' # Blank => canvas'.last = renderIdRef']_vars

\* C2: the retry loop never retries past the floors: no getBlob call is made
\* with quality below 0.1 or scale below 0.3.
C2_NoRetryPastFloors ==
    exportPc = "getBlob" =>
        /\ ~DblLt(quality, QualityFloor)
        /\ ~DblLt(scale, ScaleFloor)

\* C3: the buffer handed to the user is within the budget, or over it only
\* with both floors reached; and an image that is still over budget at the
\* floors is delivered (oversized), the export does not end in a failure.
C3_WithinBudgetOrDeliveredAtFloors ==
    /\ exportOutcome = "delivered" =>
          \/ blob = "under"
          \/ (DblLeq(quality, QualityFloor) /\ DblLeq(scale, ScaleFloor))
    /\ exportOutcome # "nullBlob"

\* C11: the writes of two in-flight preview composites never interleave on
\* the visible canvas: no composite resizes or draws on the canvas while
\* another composite that has already written to it is still in flight.
C11_NoInterleavedWrites ==
    [][\A r \in RenderIds :
          (canvas' # canvas /\ canvas' # Blank /\ canvas'.last = r) =>
              \A q \in RenderIds \ {r} :
                  ~(InFlight(renders[q]) /\ q \in canvas.painters)]_vars

\* C16: with the image or the location null no composite is started: every
\* call of renderPreview or renderGeoTagImage made by the effect or by one of
\* the two download handlers was given an image and a location, and while
\* either is missing the canvas is not shown and no preview composite is
\* under way on it.
C16_NoCompositeWithoutImageAndLocation ==
    /\ \A c \in calls : c.image /\ c.location
    /\ (~image \/ ~location) =>
          /\ canvas = Blank
          /\ \A r \in RenderIds : ~InFlight(renders[r])

\* an image without a location, after the effect and both handlers had
\* started composites while both were there
C16_Witness ==
    /\ image
    /\ ~location
    /\ {c.by : c \in calls} = {"preview", "hd", "compressed"}
    /\ canvas = Blank

\* C20: for the same inputs the preview, the HD export and every attempt of
\* the size-constrained export run the same composite with the same
\* arguments, weather included: every call passes the props' weatherData.
C20_SameArgumentsEverywhere ==
    \A c \in calls : c.weather = weatherData

\* C22: the size-constrained export starts at (quality, scale) = (0.8, 1.0);
\* each retry changes exactly one of the two by 0.1, lowering quality while
\* quality is above 0.3 and lowering scale otherwise; so scale is 1.0 in
\* every attempt until quality has stopped falling, and quality is never
\* lowered again once scale has started to drop.
C22_QualityFirstThenScale ==
    /\ [](exportPc = "getBlob" =>
             /\ attempts = 1 => quality = Dbl(StartQuality) /\ scale = Dbl(StartScale)
             /\ scale # Dbl(StartScale) => ~DblGt(quality, QualityStepFloor))
    /\ [][(exportPc = "getBlob" /\ attempts' = attempts + 1) =>
             \/ /\ DblGt(quality, QualityStepFloor)
                /\ quality'.n = quality.n - 10
                /\ scale' = scale
             \/ /\ ~DblGt(quality, QualityStepFloor)
                /\ scale'.n = scale.n - 10
                /\ quality' = quality]_vars

C22_Witness ==
    /\ exportPc = "getBlob"
    /\ attempts > 8
    /\ scale.n = 80
    /\ ~DblGt(quality, QualityStepFloor)

encodedSurface == encoded # NoSurface

\* C23: every attempt of the size-constrained export re-renders the full
\* composite at that attempt's scale, with crop and layout recomputed for
\* that scale, before it encodes; no attempt re-encodes or resamples the
\* surface of an earlier attempt.
C23_RerenderedAtAttemptScale ==
    encodedSurface =>
        /\ encoded.rendered = encoded.attempt
        /\ encoded.renderedAt = encoded.scale
        /\ encoded.resampledBy = Dbl(StartScale)

\* C23 as the code has it: every attempt renders the full composite anew on
\* a canvas of its own at full resolution, and what it encodes is that
\* canvas, drawn smaller by the attempt's scale when the scale is below 1.0;
\* no attempt encodes or resamples the canvas of an earlier attempt.
C23_RerenderedThenResampled ==
    encodedSurface =>
        /\ encoded.rendered = encoded.attempt
        /\ encoded.renderedAt = Dbl(StartScale)
        /\ encoded.resampledBy = encoded.scale

C23_Witness ==
    /\ encodedSurface
    /\ encoded.attempt > 8
    /\ encoded.resampledBy.n = 80
    /\ exportOutcome = "delivered"

\* C28: every export, HD or size-constrained, sets the downloading flag when
\* it starts and resets it when it ends, whether render and encode succeed
\* or throw: the flag is set exactly while a handler is suspended, and a set
\* flag is eventually reset.
C28_DownloadingReset ==
    /\ [](downloading <=> exportPc # "idle")
    /\ [][exportPc = "idle" /\ exportPc' # "idle" => downloading']_vars
    /\ downloading ~> ~downloading

C28_Witness ==
    /\ ~downloading
    /\ exportOutcome \in {"hdFailed", "renderFailed", "nullBlob"}

\* Every promise a handler awaits settles: font and image loads end in their
\* load or error event, toBlob calls its callback.
SpecLive ==
    /\ Spec
    /\ WF_vars(\E b \in {"rejected", "null", "over", "under"} : GetBlobSettles(b))
    /\ WF_vars(\E res \in {"blob", "null", "rejected"} : RenderGeoTagImageSettles(res))

(***************************************************************************)
(* calculateCrop                                                           *)
(***************************************************************************)

\* Largest image side the crop check enumerates (pixels).
MaxDim == 13

\* Crop coordinates are in 1/Unit pixel: srcH * 4/3, srcW * 3/4 and the
\* halved margins are whole numbers of this unit.
Unit == 4 * 3 * 2

NoCrop == [sx |-> -1, sy |-> -1, sw |-> -1, sh |-> -1,
           dx |-> -1, dy |-> -1, dw |-> -1, dh |-> -1]

\* const targetRatio = isLandscape ? 4 / 3 : 3 / 4, as numerator and denominator
targetRatio(isLandscape) == IF isLandscape THEN <<4, 3>> ELSE <<3, 4>>

\* A plausible slip in calculateCrop: the "else if" of each orientation (the
\* image closer to square than the target) is forgotten, so a landscape image
\* only ever loses width and a portrait image only ever loses height.
calculateCropNoElse(w, h) ==
    LET isLandscape == w >= h
        tr == targetRatio(isLandscape)
        wide == isLandscape /\ w * tr[2] > h * tr[1]
        tall == ~isLandscape /\ w * tr[2] < h * tr[1]
        sw == IF wide THEN (h * Unit * tr[1]) \div tr[2] ELSE w * Unit
        sx == IF wide THEN (w * Unit - sw) \div 2 ELSE 0
        sh == IF tall THEN (w * Unit * tr[2]) \div tr[1] ELSE h * Unit
        sy == IF tall THEN (h * Unit - sh) \div 2 ELSE 0
    IN  [sx |-> sx, sy |-> sy, sw |-> sw, sh |-> sh,
         dx |-> 0, dy |-> 0, dw |-> sw, dh |-> sh]

\* A plausible slip: the two crop formulas are exchanged (the too-wide image
\* has its height recomputed, the too-tall one its width).
calculateCropSwapped(w, h) ==
    LET isLandscape == w >= h
        tr == targetRatio(isLandscape)
        wide == w * tr[2] > h * tr[1]
        tall == w * tr[2] < h * tr[1]
        sh == IF wide THEN (w * Unit * tr[2]) \div tr[1] ELSE h * Unit
        sy == IF wide THEN (h * Unit - sh) \div 2 ELSE 0
        sw == IF tall THEN (h * Unit * tr[1]) \div tr[2] ELSE w * Unit
        sx == IF tall THEN (w * Unit - sw) \div 2 ELSE 0
    IN  [sx |-> sx, sy |-> sy, sw |-> sw, sh |-> sh,
         dx |-> 0, dy |-> 0, dw |-> sw, dh |-> sh]

\* A plausible slip: the cut is not centred (the whole margin is taken from
\* the left resp. the top).
calculateCropOffCentre(w, h) ==
    LET isLandscape == w >= h
        tr == targetRatio(isLandscape)
        wide == w * tr[2] > h * tr[1]
        tall == w * tr[2] < h * tr[1]
        sw == IF wide THEN (h * Unit * tr[1]) \div tr[2] ELSE w * Unit
        sx == IF wide THEN w * Unit - sw ELSE 0
        sh == IF tall THEN (w * Unit * tr[2]) \div tr[1] ELSE h * Unit
        sy == IF tall THEN h * Unit - sh ELSE 0
    IN  [sx |-> sx, sy |-> sy, sw |-> sw, sh |-> sh,
         dx |-> 0, dy |-> 0, dw |-> sw, dh |-> sh]

\* function calculateCrop(srcW, srcH). srcRatio > targetRatio is compared
\* cross-multiplied (srcW * den > srcH * num); both branches of an orientation
\* assign the same formulas, so the orientation only selects targetRatio.
calculateCrop(w, h) ==
    LET isLandscape == w >= h
        tr == targetRatio(isLandscape)
        wide == w * tr[2] > h * tr[1]      \* srcRatio > targetRatio
        tall == w * tr[2] < h * tr[1]      \* srcRatio < targetRatio
        \* sw = srcH * targetRatio; sx = (srcW - sw) / 2
        sw == IF wide THEN (h * Unit * tr[1]) \div tr[2] ELSE w * Unit
        sx == IF wide THEN (w * Unit - sw) \div 2 ELSE 0
        \* sh = srcW / targetRatio; sy = (srcH - sh) / 2
        sh == IF tall THEN (w * Unit * tr[2]) \div tr[1] ELSE h * Unit
        sy == IF tall THEN (h * Unit - sh) \div 2 ELSE 0
    IN  [sx |-> sx, sy |-> sy, sw |-> sw, sh |-> sh,
         dx |-> 0, dy |-> 0, dw |-> sw, dh |-> sh]

InitCrop ==
    /\ srcW \in 1..MaxDim
    /\ srcH \in 1..MaxDim
    /\ crop = NoCrop
    /\ ComponentIdle
    /\ OverlayIdle
    /\ CallIdle
    /\ LoaderIdle

\* const { sx, sy, sw, sh, dx, dy, dw, dh } = calculateCrop(naturalWidth, naturalHeight)
CalculateCrop ==
    /\ crop = NoCrop
    /\ crop' = calculateCrop(srcW, srcH)
    /\ UNCHANGED <<srcW, srcH, previewVars, exportVars, overlayVars, callVars, loaderVars>>

NextCrop == CalculateCrop

SpecCrop == InitCrop /\ [][NextCrop]_vars

cropped == crop # NoCrop

\* C6: for every positive source size the destination rectangle has ratio
\* 4:3 when srcW >= srcH (3*dw = 4*dh) and 3:4 otherwise (4*dw = 3*dh).
C6_DestRatio ==
    cropped =>
        IF srcW >= srcH THEN 3 * crop.dw = 4 * crop.dh
                        ELSE 4 * crop.dw = 3 * crop.dh

\* C6 witness: a landscape image closer to square than 4:3 has been cropped
\* (its height was cut).
C6_Witness ==
    /\ cropped
    /\ srcW >= srcH
    /\ 3 * srcW < 4 * srcH
    /\ crop.dh < srcH * Unit

\* C7: the source rectangle lies inside the image and is not empty.
C7_SourceInside ==
    cropped =>
        /\ crop.sx >= 0
        /\ crop.sy >= 0
        /\ crop.sw > 0
        /\ crop.sh > 0
        /\ crop.sx + crop.sw <= srcW * Unit
        /\ crop.sy + crop.sh <= srcH * Unit

\* C7 witness: a too-wide image was cropped with a positive left margin.
C7_Witness ==
    /\ cropped
    /\ crop.sx > 0
    /\ crop.sx + crop.sw < srcW * Unit

\* C8: at most one dimension is reduced and the cut is centred: above the
\* target ratio only the width (sh = srcH, sy = 0, sx = (srcW - sw)/2), below
\* it only the height (sw = srcW, sx = 0, sy = (srcH - sh)/2), at the target
\* the whole image; the destination has origin (0,0) and the source's size.
C8_CentredSingleCut ==
    cropped =>
        LET tr == targetRatio(srcW >= srcH)
            above == srcW * tr[2] > srcH * tr[1]
            below == srcW * tr[2] < srcH * tr[1]
        IN  /\ above => /\ crop.sh = srcH * Unit
                        /\ crop.sy = 0
                        /\ crop.sw < srcW * Unit
                        /\ 2 * crop.sx = srcW * Unit - crop.sw
            /\ below => /\ crop.sw = srcW * Unit
                        /\ crop.sx = 0
                        /\ crop.sh < srcH * Unit
                        /\ 2 * crop.sy = srcH * Unit - crop.sh
            /\ (~above /\ ~below) =>
                        /\ crop.sx = 0 /\ crop.sy = 0
                        /\ crop.sw = srcW * Unit /\ crop.sh = srcH * Unit
            /\ crop.dx = 0 /\ crop.dy = 0
            /\ crop.dw = crop.sw /\ crop.dh = crop.sh

\* C8 witness: a portrait image taller than 3:4 had only its height cut,
\* with equal margins above and below.
C8_Witness ==
    /\ cropped
    /\ srcW < srcH
    /\ crop.sw = srcW * Unit
    /\ crop.sy > 0
    /\ crop.sy + crop.sh + crop.sy = srcH * Unit

(***************************************************************************)
(* drawOverlay: layout and the auto-fit loop (lib/canvasRenderer.ts)       *)
(***************************************************************************)

\* Most words of location.fullAddress the model enumerates.
MaxAddrWords == 40

\* Canvas sizes (dw, dh of a 4:3 or 3:4 crop) the model enumerates.
Canvases == {<<1080, 810>>, <<400, 300>>, <<810, 1080>>}

\* The texts of the overlay are kept as their words (text.split(' ')).
\* `${district}, ${province}, ${country}`: "Ngaglik, Jawa Tengah, Indonesia"
TitleWords == <<"Ngaglik,", "Jawa", "Tengah,", "Indonesia">>

\* `Lat ${lat.toFixed(6)}° Long ${lng.toFixed(6)}°`: "Lat -7.597110° Long 110.949835°"
LatLongWords == <<"Lat", "-7.597110d", "Long", "110.949835d">>

\* formatDateTime(...): "Jumat, 15/03/2024 14:30 GMT +07:00"
DateTimeWords == <<"Jumat,", "15/03/2024", "14:30", "GMT", "+07:00">>

\* location.fullAddress of n words of six characters
AddressWords(n) == [i \in 1..n |-> "Jalan,"]

\* Math.round(num / den) for den > 0: halves round up (towards +infinity)
JSRound(num, den) == (2 * num + den) \div (2 * den)

\* const scale = Math.max(canvasW / 1080, isPreview ? 0.5 : 0.8), isPreview
\* being false at every call; as <<numerator, denominator>>
scaleOf(canvasW) == IF canvasW * 5 >= 1080 * 4 THEN <<canvasW, 1080>> ELSE <<4, 5>>

\* Math.round(tenths / 10 * scale)
Scaled(tenths, canvasW) ==
    JSRound(tenths * scaleOf(canvasW)[1], 10 * scaleOf(canvasW)[2])

padding(in) == Scaled(160, in.canvasW)

gap(in) == Scaled(150, in.canvasW)

fontSizeTitle(in) == Scaled(200, in.canvasW)

fontSizeBody(in) == Scaled(150, in.canvasW)

\* const titleBodyGap = Math.round(-5 * scale)
titleBodyGap(in) == Scaled(-50, in.canvasW)

isLandscape(in) == in.canvasW >= in.canvasH

\* const targetHeight = isLandscape ? Math.round(canvasH * 0.248)
\*                                  : Math.round(canvasW * 0.245)
infoBoxHeight(in) ==
    IF isLandscape(in) THEN JSRound(in.canvasH * 248, 1000)
                       ELSE JSRound(in.canvasW * 245, 1000)

\* const maxTextHeight = infoBoxHeight - padding * 2
maxTextHeight(in) == infoBoxHeight(in) - padding(in) * 2

maxOverlayAllowed(in) ==
    IF isLandscape(in) THEN JSRound(in.canvasH * 109, 100)
                       ELSE JSRound(in.canvasW * 935, 1000)

\* maxTextContentWidth = maxOverlayAllowed - infoBoxHeight * 1.06 - gap
\*                       - padding * 2, in 1/100 px
maxTextContentWidth(in) ==
    maxOverlayAllowed(in) * 100 - infoBoxHeight(in) * 106
        - gap(in) * 100 - padding(in) * 200

\* The list of segments with the address pushed whatever showFullAddress is.
linesAlwaysAddress(in) ==
    <<[text |-> TitleWords, fontSize |-> Scaled(200, in.canvasW), hasFlag |-> TRUE],
      [text |-> in.address, fontSize |-> Scaled(150, in.canvasW), hasFlag |-> FALSE]>>
    \o (IF in.showLatLong
          THEN <<[text |-> LatLongWords, fontSize |-> Scaled(150, in.canvasW), hasFlag |-> FALSE]>>
          ELSE <<>>)
    \o <<[text |-> DateTimeWords, fontSize |-> Scaled(150, in.canvasW), hasFlag |-> FALSE]>>

\* const lines = [title]; if (showFullAddress) push(fullAddress);
\* if (showLatLong) push(lat/long); push(date/time)
lines(in) ==
    <<[text |-> TitleWords, fontSize |-> fontSizeTitle(in), hasFlag |-> TRUE]>>
    \o (IF in.showFullAddress
          THEN <<[text |-> in.address, fontSize |-> fontSizeBody(in), hasFlag |-> FALSE]>>
          ELSE <<>>)
    \o (IF in.showLatLong
          THEN <<[text |-> LatLongWords, fontSize |-> fontSizeBody(in), hasFlag |-> FALSE]>>
          ELSE <<>>)
    \o <<[text |-> DateTimeWords, fontSize |-> fontSizeBody(in), hasFlag |-> FALSE]>>

RECURSIVE SumSeq(_)
SumSeq(s) == IF s = <<>> THEN 0 ELSE Head(s) + SumSeq(Tail(s))

\* Advance of one character, in 1/100 of the font size (the font's metrics:
\* about half an em per character on average).
CharEm == 50

\* ctx.measureText(line).width under ctx.font of fontSize px, in 1/100 px
measureText(line, fontSize) == Len(line) * fontSize * CharEm

\* text.split(' ') from the characters after a separator on: word is the
\* word read so far
RECURSIVE splitLoop(_, _, _)
splitLoop(rest, word, result) ==
    IF rest = "" THEN Append(result, word)
    ELSE IF Head(rest) = " " THEN splitLoop(Tail(rest), "", Append(result, word))
    ELSE splitLoop(Tail(rest), word \o Head(rest), result)

\* const words = text.split(' ')
split(text) == splitLoop(text, "", <<>>)

\* words.join(' ')
RECURSIVE joinSpaces(_)
joinSpaces(words) ==
    IF words = <<>> THEN ""
    ELSE IF Len(words) = 1 THEN Head(words)
    ELSE Head(words) \o " " \o joinSpaces(Tail(words))

\* wrapText without its last statement, if (currentLine) result.push(...).
RECURSIVE wrapLoopLastLineLost(_, _, _, _, _)
wrapLoopLastLineLost(words, currentLine, result, fontSize, maxWidth) ==
    IF words = <<>>
      THEN result
      ELSE LET word == Head(words)
               testLine == IF currentLine # "" THEN currentLine \o " " \o word ELSE word
           IN  IF measureText(testLine, fontSize) > maxWidth /\ currentLine # ""
                 THEN wrapLoopLastLineLost(Tail(words), word, Append(result, currentLine),
                                           fontSize, maxWidth)
                 ELSE wrapLoopLastLineLost(Tail(words), testLine, result, fontSize, maxWidth)

\* The for loop of wrapText with testLine built without the separating
\* space: `${currentLine}${word}`.
RECURSIVE wrapLoopNoSpace(_, _, _, _, _)
wrapLoopNoSpace(words, currentLine, result, fontSize, maxWidth) ==
    IF words = <<>>
      THEN IF currentLine # "" THEN Append(result, currentLine) ELSE result
      ELSE LET word == Head(words)
               testLine == IF currentLine # "" THEN currentLine \o word ELSE word
           IN  IF measureText(testLine, fontSize) > maxWidth /\ currentLine # ""
                 THEN wrapLoopNoSpace(Tail(words), word, Append(result, currentLine),
                                      fontSize, maxWidth)
                 ELSE wrapLoopNoSpace(Tail(words), testLine, result, fontSize, maxWidth)

\* for (const word of words) { ... }  if (currentLine) result.push(currentLine)
RECURSIVE wrapLoop(_, _, _, _, _)
wrapLoop(words, currentLine, result, fontSize, maxWidth) ==
    IF words = <<>>
      THEN IF currentLine # "" THEN Append(result, currentLine) ELSE result
      ELSE LET word == Head(words)
               \* currentLine ? `${currentLine} ${word}` : word
               testLine == IF currentLine # "" THEN currentLine \o " " \o word ELSE word
           IN  IF measureText(testLine, fontSize) > maxWidth /\ currentLine # ""
                 THEN wrapLoop(Tail(words), word, Append(result, currentLine),
                               fontSize, maxWidth)
                 ELSE wrapLoop(Tail(words), testLine, result, fontSize, maxWidth)

\* wrapText from its second statement on: result = [], currentLine = '', the
\* loop over words, the last push
wrapWords(fontSize, words, maxWidth) == wrapLoop(words, "", <<>>, fontSize, maxWidth)

\* function wrapText(ctx, text, maxWidth), ctx.font being of fontSize px
wrapText(fontSize, text, maxWidth) == wrapWords(fontSize, split(text), maxWidth)

\* currentScaleFactor -= 0.01 on the values 2.5, 2.49, 2.4800000000000004, ...:
\* 2.5 - 0.01 is exact, every later difference carries a positive error (the
\* 200th value is 0.5000000000000093 and the 201st 0.4900000000000093).
SubHundredth(d) == [n |-> d.n - 1, e |-> IF d.n < StartScaleFactor THEN 1 ELSE d.e]

\* One pass of the body of while (true) at scale factor csf: wrappedTextData,
\* totalTextHeight (in 1/10 px, titleBodyGap included) and forceShrink.
Trial(in, csf) ==
    LET ls == lines(in)
        wrapped == [i \in 1..Len(ls) |->
            LET scaledFontSize == JSRound(ls[i].fontSize * csf.n, 100)
                \* Math.round(scaledFontSize * 1.2) + Math.round(8 * scale)
                flagSpace == IF ls[i].hasFlag
                               THEN JSRound(scaledFontSize * 12, 10) + Scaled(80, in.canvasW)
                               ELSE 0
            IN  [lines |-> wrapWords(scaledFontSize, ls[i].text,
                                    maxTextContentWidth(in) - flagSpace * 100),
                 fontSize |-> scaledFontSize,
                 hasFlag |-> ls[i].hasFlag]]
        \* totalTextHeight += wrapped.length * scaledFontSize * lineHeight (1.2)
        heights == [i \in 1..Len(ls) |-> Len(wrapped[i].lines) * wrapped[i].fontSize * 12]
    IN  [wrappedTextData |-> wrapped,
         totalTextHeight |-> SumSeq(heights) + titleBodyGap(in) * 10,
         forceShrink |-> \E i \in 1..Len(ls) :
                            \/ Len(wrapped[i].lines) > 3
                            \/ (wrapped[i].hasFlag /\ Len(wrapped[i].lines) > 2)]

\* A plausible slip in the exit test: the height is not looked at, only the
\* line-count limits.
FitBreakIgnoringHeight(in, t, csf) ==
    ~t.forceShrink \/ DblLeq(csf, minScaleFactor)

\* A plausible slip in the exit test: forceShrink is not looked at.
FitBreakIgnoringLimits(in, t, csf) ==
    \/ t.totalTextHeight <= maxTextHeight(in) * 10
    \/ DblLeq(csf, minScaleFactor)

\* A plausible slip in the exit test: the negation of forceShrink is missing.
FitBreakNegationDropped(in, t, csf) ==
    \/ (t.totalTextHeight <= maxTextHeight(in) * 10 /\ t.forceShrink)
    \/ DblLeq(csf, minScaleFactor)

\* if ((totalTextHeight <= maxTextHeight && !forceShrink)
\*     || currentScaleFactor <= minScaleFactor) break;
FitBreak(in, t, csf) ==
    \/ (t.totalTextHeight <= maxTextHeight(in) * 10 /\ ~t.forceShrink)
    \/ DblLeq(csf, minScaleFactor)

(***************************************************************************)
(* drawOverlay: the draw sequence and its asset loads                      *)
(***************************************************************************)

\* The inputs of one renderPreview call.
OverlayInputs ==
    {[canvasW |-> c[1], canvasH |-> c[2], address |-> AddressWords(n),
      showFullAddress |-> a, showLatLong |-> l, weatherData |-> w] :
        c \in Canvases, n \in 1..MaxAddrWords, a \in BOOLEAN, l \in BOOLEAN,
        w \in BOOLEAN}

(***************************************************************************)
(* The full-width bar layout (drawOverlay of part_004)                     *)
(***************************************************************************)

\* const overlayHeight = isLandscape ? Math.round(canvasH * 0.33)
\*                                    : Math.round(canvasW * 0.245)
overlayHeight(in) ==
    IF isLandscape(in) THEN JSRound(in.canvasH * 33, 100)
                       ELSE JSRound(in.canvasW * 245, 1000)

\* const gap = Math.round(10 * scale)
barGap(in) == Scaled(100, in.canvasW)

\* const overlayWidth = canvasW
overlayWidth(in) == in.canvasW

\* const miniMapWidth = Math.round(overlayHeight * 1.01)
barMiniMapWidth(in) == JSRound(overlayHeight(in) * 101, 100)

\* const weatherColWidth = weatherData ? Math.round(overlayWidth * 0.1) : 0
weatherColWidth(in) ==
    IF in.weatherData THEN JSRound(overlayWidth(in), 10) ELSE 0

\* The centre column with two gaps taken off whether there is weather or not.
centerColWidthTwoGaps(in) ==
    overlayWidth(in) - barMiniMapWidth(in) - weatherColWidth(in) - barGap(in) * 2

\* const centerColWidth = overlayWidth - miniMapWidth - weatherColWidth
\*                        - gap * (weatherData ? 2 : 1)
centerColWidth(in) ==
    overlayWidth(in) - barMiniMapWidth(in) - weatherColWidth(in)
        - barGap(in) * (IF in.weatherData THEN 2 ELSE 1)

\* if (weatherData && weatherColWidth > 0)
drawsWeather(in) == in.weatherData /\ weatherColWidth(in) > 0

\* The awaits of drawOverlay that sit in a try block whose catch does not
\* rethrow: loadBadgeIcon (288-294), loadStaticMap (319-391), loadFlagImage
\* (405-409); in the bar renderer loadStaticMap and loadWeatherIcon.
CaughtAllButFlag(asset) == asset \in {"icon", "map", "weather"}

Caught(asset) == asset \in {"icon", "map", "flag", "weather"}

\* The state of the call after the promise of asset settled as res: a
\* rejection nobody catches rejects drawOverlay.
AfterLoad(asset, res, nextPc) ==
    IF res # "ok" /\ ~Caught(asset) THEN "rejected" ELSE nextPc

\* catch { fill '#e8e4d8'; fillText('Map', ...) } without the fill and label
mapCatchSilent(o) == o

\* catch { ctx.fillStyle = '#e8e4d8'; roundRect(...); ctx.fill();
\*         ...; ctx.fillText('Map', ...) }
mapCatch(o) == o \o <<"mapPlaceholder", "mapLabel">>

\* try { mapImg = await loadStaticMap(...); white background, drawImage(mapImg),
\*       the 'Google' logo } catch { placeholder }
paintMap(o, res) == IF res = "ok" THEN o \o <<"map", "mapLogo">> ELSE mapCatch(o)

\* The info box filled before the badge's icon and text are drawn.
afterBadgeIconBoxFirst(o, res) ==
    o \o <<"infoBox">> \o (IF res = "ok" THEN <<"badgeIcon">> ELSE <<>>) \o <<"badgeText">>

\* try { drawImage(iconImg) } catch { console.error }; fillText(wmText);
\* then the info box: roundRect(...); ctx.fill()
afterBadgeIcon(o, res) ==
    o \o (IF res = "ok" THEN <<"badgeIcon">> ELSE <<>>) \o <<"badgeText", "infoBox">>

\* for (j ...) { fillText(wLine); if (block.hasFlag && j === last && flagImg)
\*               drawImage(flagImg) }
BlockOps(block, flagImg) ==
    [j \in 1..Len(block.lines) |-> "text"]
    \o (IF block.hasFlag /\ flagImg /\ Len(block.lines) > 0 THEN <<"flag">> ELSE <<>>)

\* for (i ...) over wrappedTextData
RECURSIVE TextBlock(_, _)
TextBlock(wtd, flagImg) ==
    IF wtd = <<>> THEN <<>>
                  ELSE BlockOps(Head(wtd), flagImg) \o TextBlock(Tail(wtd), flagImg)

\* The bar renderer's centre column: fullAddress (truncated), district,
\* province, country, then the date/time at the bottom.
BarText == <<"text", "text", "text", "text", "text">>

\* The save / restore calls of the mini-map of the boxed renderer:
\*   try { mapImg = await loadStaticMap(...); ctx.save(); ...clip, drawImage;
\*         ctx.save(); ...logo...; ctx.restore(); ctx.restore();
\*         ctx.restore(); }
\*   catch { ctx.save(); ...placeholder...; ctx.restore(); }
mapCalls(res) ==
    IF res = "ok" THEN <<"save", "save", "restore", "restore", "restore">>
                  ELSE <<"save", "restore">>

\* The mini-map of the bar renderer: one save and one restore in the try
\* block, one of each in the catch block.
barMapCalls(res) == <<"save", "restore">>

\* The bar renderer's centre column and its date/time line: ctx.save() ...
\* ctx.restore(), twice.
barTextCalls == <<"save", "restore", "save", "restore">>

\* The text loop: ctx.save(); shadow; drawImage(flagImg); ctx.restore() on
\* the last line of a block with hasFlag, when there is a flag image.
flagCalls(wtd, flagImg) ==
    IF flagImg /\ \E i \in 1..Len(wtd) : wtd[i].hasFlag /\ Len(wtd[i].lines) > 0
       THEN <<"save", "restore">>
       ELSE <<>>

InitOverlay ==
    /\ srcW = 1 /\ srcH = 1 /\ crop = NoCrop
    /\ PreviewIdle
    /\ weatherData = FALSE
    /\ ExportIdle
    /\ renderer \in Renderers
    /\ input \in OverlayInputs
    \* renderPreview of canvasRenderer.ts takes no weatherData
    /\ renderer = "direct" => ~input.weatherData
    /\ ovPc = "start"
    /\ currentScaleFactor = Dbl(StartScaleFactor)
    /\ wrappedTextData = <<>>
    /\ totalTextHeight = 0
    /\ trials = 0
    /\ loads = NoLoads
    /\ ops = <<>>
    /\ ctxCalls = <<>>
    /\ CallIdle
    /\ LoaderIdle

\* The canvas keeping what was on it when it is sized.
sizeCanvasKept(onCanvas) == onCanvas

\* canvas.width = dw; canvas.height = dh: setting the size of a canvas clears
\* its bitmap and resets its context's state and state stack, also when the
\* size does not change.  (The bar renderer sizes an offscreen canvas it has
\* just created.)
sizeCanvas(onCanvas) == <<>>

\* The outcomes of the loads of a second run are those of the first.
SameFonts(ok) == ret # NoRet => ok = (ret.ovPc # "fontFailed")

SameLoad(asset, res) == ret # NoRet => res = ret.loads[asset]

SameCountryCode(more) ==
    (ret # NoRet /\ renderer = "direct") => more = (ret.loads.flag # "skipped")

\* renderPreview up to its first await: the canvas is sized and
\* ctx.drawImage(image, sx, sy, sw, sh, dx, dy, dw, dh) draws the photo.
DrawBaseImage ==
    /\ ovPc = "start"
    /\ ops' = Append(sizeCanvas(ops), "photo")
    /\ ctxCalls' = sizeCanvas(ctxCalls)
    /\ ovPc' = "fonts"
    /\ trials' = 0
    /\ loads' = NoLoads
    /\ UNCHANGED <<input, currentScaleFactor, wrappedTextData, totalTextHeight,
                   cropVars, previewVars, exportVars, callVars, loaderVars>>

\* await font.load() (and document.fonts.load) settle.  A rejection rejects
\* renderPreview before drawOverlay is called.  Otherwise drawOverlay starts:
\* the boxed renderer computes its layout and enters the fit loop, the bar
\* renderer fills the bar and awaits loadStaticMap.
FontsLoad(ok) ==
    /\ ovPc = "fonts"
    /\ SameFonts(ok)
    /\ IF ~ok THEN /\ ovPc' = "fontFailed" /\ ops' = ops /\ ctxCalls' = ctxCalls
                   /\ UNCHANGED <<currentScaleFactor, wrappedTextData, totalTextHeight>>
       ELSE IF renderer = "direct"
              \* let totalTextHeight = 0; let currentScaleFactor = 2.5;
              \* let wrappedTextData = []
              THEN /\ ovPc' = "fit" /\ ops' = ops /\ ctxCalls' = ctxCalls
                   /\ currentScaleFactor' = Dbl(StartScaleFactor)
                   /\ wrappedTextData' = <<>>
                   /\ totalTextHeight' = 0
              \* ctx.save(); fillRect(...); ctx.restore()
              ELSE /\ ovPc' = "map" /\ ops' = Append(ops, "barBg")
                   /\ ctxCalls' = ctxCalls \o <<"save", "restore">>
                   /\ UNCHANGED <<currentScaleFactor, wrappedTextData, totalTextHeight>>
    /\ UNCHANGED <<input, trials, loads, cropVars, previewVars, exportVars, callVars, loaderVars>>

\* One pass of while (true) { ... } (217-259).  The pass that breaks runs on
\* to the first await of the draw sequence: the badge's box is filled.
AutoFitTrial ==
    /\ ovPc = "fit"
    /\ LET t == Trial(input, currentScaleFactor)
       IN  /\ wrappedTextData' = t.wrappedTextData
           /\ totalTextHeight' = t.totalTextHeight
           /\ trials' = trials + 1
           /\ IF FitBreak(input, t, currentScaleFactor)
                THEN /\ ovPc' = "icon"
                     /\ ops' = Append(ops, "badgeBg")
                     \* ctx.save() of the badge
                     /\ ctxCalls' = Append(ctxCalls, "save")
                     /\ UNCHANGED currentScaleFactor
                ELSE /\ currentScaleFactor' = SubHundredth(currentScaleFactor)
                     /\ UNCHANGED <<ovPc, ops, ctxCalls>>
    /\ UNCHANGED <<input, loads, cropVars, previewVars, exportVars, callVars, loaderVars>>

\* await loadBadgeIcon() settles; the code runs on to await loadStaticMap.
loadBadgeIconSettles(res) ==
    /\ ovPc = "icon"
    /\ SameLoad("icon", res)
    /\ loads' = [loads EXCEPT !.icon = res]
    /\ ovPc' = AfterLoad("icon", res, "map")
    /\ ops' = IF ovPc' = "rejected" THEN ops ELSE afterBadgeIcon(ops, res)
    \* ctx.restore() of the badge
    /\ ctxCalls' = IF ovPc' = "rejected" THEN ctxCalls ELSE Append(ctxCalls, "restore")
    /\ UNCHANGED <<input, currentScaleFactor, wrappedTextData, totalTextHeight,
                   trials, cropVars, previewVars, exportVars, callVars, loaderVars>>

\* await loadStaticMap() settles: "noKey" when getApiKey() gave nothing.
\* Boxed renderer: map or placeholder, then if (lines[0].hasFlag &&
\* location.countryCode) await loadFlagImage, else the text lines.
\* Bar renderer: map or placeholder, the centre column, then
\* if (weatherData && weatherColWidth > 0) await loadWeatherIcon.
loadStaticMapSettles(res, more) ==
    /\ ovPc = "map"
    /\ renderer = "offscreen" => more = drawsWeather(input)
    /\ SameLoad("map", res)
    /\ SameCountryCode(more)
    /\ loads' = [loads EXCEPT !.map = res,
                              !.flag = IF renderer = "direct" /\ ~more THEN "skipped" ELSE @,
                              !.weather = IF renderer = "offscreen" /\ ~more THEN "skipped" ELSE @]
    /\ LET nextPc == IF more THEN (IF renderer = "direct" THEN "flag" ELSE "weather")
                             ELSE "done"
       IN  ovPc' = AfterLoad("map", res, nextPc)
    /\ ops' = IF ovPc' = "rejected" THEN ops
              ELSE IF renderer = "offscreen" THEN paintMap(ops, res) \o BarText
              ELSE IF more THEN paintMap(ops, res)
              ELSE paintMap(ops, res) \o TextBlock(wrappedTextData, FALSE)
    /\ ctxCalls' = IF ovPc' = "rejected" THEN ctxCalls
                   ELSE IF renderer = "offscreen"
                          THEN ctxCalls \o barMapCalls(res) \o barTextCalls
                                   \o (IF more THEN <<"save">> ELSE <<>>)
                          ELSE ctxCalls \o mapCalls(res)
    /\ UNCHANGED <<input, currentScaleFactor, wrappedTextData, totalTextHeight,
                   trials, cropVars, previewVars, exportVars, callVars, loaderVars>>

\* await loadFlagImage(countryCode) settles; the text lines are drawn.
loadFlagImageSettles(res) ==
    /\ ovPc = "flag"
    /\ SameLoad("flag", res)
    /\ loads' = [loads EXCEPT !.flag = res]
    /\ ovPc' = AfterLoad("flag", res, "done")
    /\ ops' = IF ovPc' = "rejected" THEN ops
              ELSE ops \o TextBlock(wrappedTextData, res = "ok")
    /\ ctxCalls' = IF ovPc' = "rejected" THEN ctxCalls
                   ELSE ctxCalls \o flagCalls(wrappedTextData, res = "ok")
    /\ UNCHANGED <<input, currentScaleFactor, wrappedTextData, totalTextHeight,
                   trials, cropVars, previewVars, exportVars, callVars, loaderVars>>

\* await loadWeatherIcon(iconUrl) settles: the icon or the fallback emoji,
\* then the two temperatures.
loadWeatherIconSettles(res) ==
    /\ ovPc = "weather"
    /\ SameLoad("weather", res)
    /\ loads' = [loads EXCEPT !.weather = res]
    /\ ovPc' = AfterLoad("weather", res, "done")
    /\ ops' = IF ovPc' = "rejected" THEN ops
              ELSE ops \o <<IF res = "ok" THEN "weatherIcon" ELSE "weatherEmoji",
                            "tempC", "tempF">>
    \* ctx.restore() of the weather column
    /\ ctxCalls' = IF ovPc' = "rejected" THEN ctxCalls ELSE Append(ctxCalls, "restore")
    /\ UNCHANGED <<input, currentScaleFactor, wrappedTextData, totalTextHeight,
                   trials, cropVars, previewVars, exportVars, callVars, loaderVars>>

NextOverlay ==
    \/ DrawBaseImage
    \/ \E ok \in BOOLEAN : FontsLoad(ok)
    \/ AutoFitTrial
    \/ \E res \in {"ok", "failed"} : loadBadgeIconSettles(res)
    \/ \E res \in {"ok", "failed", "noKey"}, more \in BOOLEAN : loadStaticMapSettles(res, more)
    \/ \E res \in {"ok", "failed"} : loadFlagImageSettles(res)
    \/ \E res \in {"ok", "failed"} : loadWeatherIconSettles(res)

SpecOverlay == InitOverlay /\ [][NextOverlay]_vars

settled == ovPc \in {"done", "rejected", "fontFailed"}

\* What a call of renderPreview leaves for whoever looks at it afterwards:
\* how it ended, the accepted scale and the wrapped lines, what is on the
\* canvas, and how each load settled.
Output ==
    [fn |-> "renderPreview", ovPc |-> ovPc,
     currentScaleFactor |-> currentScaleFactor, wrappedTextData |-> wrappedTextData,
     totalTextHeight |-> totalTextHeight, ops |-> ops, ctxCalls |-> ctxCalls,
     loads |-> loads]

\* renderPreview is called again on the same canvas with the same image,
\* location, dateTime and proSettings, after the first call has returned or
\* rejected.  The canvas still holds what the first call drew.
RenderAgain ==
    /\ settled
    /\ ret = NoRet
    /\ ret' = Output
    /\ ovPc' = "start"
    /\ UNCHANGED <<arg, input, currentScaleFactor, wrappedTextData, totalTextHeight,
                   trials, loads, ops, ctxCalls, cropVars, previewVars, exportVars,
                   loaderVars>>

NextTwice == NextOverlay \/ RenderAgain

\* The address lengths of the calls that are made twice: a short address, one
\* that wraps, and the longest.
TwiceAddrWords == {1, 12, MaxAddrWords}

InitTwice == InitOverlay /\ Len(input.address) \in TwiceAddrWords

SpecTwice == InitTwice /\ [][NextTwice]_vars

fitted == ovPc \in {"icon", "map", "flag", "done"} /\ renderer = "direct"

\* C4: the auto-fit loop ends after at most one trial per 0.01 step from 2.5
\* down to 0.5 (201 trials), and the scale factor it holds is never below the
\* floor 0.5.
C4_TerminatesAtOrAboveFloor ==
    /\ ~DblLt(currentScaleFactor, minScaleFactor)
    /\ trials <= StartScaleFactor - minScaleFactor + 1

\* Sum over the blocks of wrappedTextData of
\* wrapped line count x scaled font size x 1.2, plus titleBodyGap; in 1/10 px
BlockHeight ==
    SumSeq([i \in 1..Len(wrappedTextData) |->
               Len(wrappedTextData[i].lines) * wrappedTextData[i].fontSize * 12])
    + titleBodyGap(input) * 10

\* C5: when the auto-fit loop has ended, the total block height (wrapped
\* lines x scaled font size x line height, plus the title-body gap) is at most
\* the available text height (info box height minus twice the padding),
\* unless the loop ended because the scale floor was reached.
C5_FitsUnlessFloorReached ==
    fitted =>
        \/ BlockHeight <= (infoBoxHeight(input) - 2 * padding(input)) * 10
        \/ DblLeq(currentScaleFactor, minScaleFactor)

\* the loop shrank the text and stopped above the floor
C5_Witness ==
    /\ fitted
    /\ trials > 1
    /\ DblGt(currentScaleFactor, minScaleFactor)
    /\ BlockHeight <= (infoBoxHeight(input) - 2 * padding(input)) * 10

\* At scale factor 1.0 every segment fits the content width on one line (the
\* title with the room kept for its flag) and the single lines fit the
\* available height.
FitsOnSingleLines(in) ==
    LET ls == lines(in)
    IN  /\ \A i \in 1..Len(ls) :
              measureText(joinSpaces(ls[i].text), ls[i].fontSize)
                  <= maxTextContentWidth(in)
                     - (IF ls[i].hasFlag
                          THEN (JSRound(ls[i].fontSize * 12, 10) + Scaled(80, in.canvasW)) * 100
                          ELSE 0)
        /\ SumSeq([i \in 1..Len(ls) |-> ls[i].fontSize * 12]) + titleBodyGap(in) * 10
              <= maxTextHeight(in) * 10

\* C12 as stated: for segments that fit the content box at scale 1.0 on
\* single lines, the auto-fit loop ends with a scale factor of at least 1.0
\* and with no segment wrapped onto more than one line.
C12_FittingTextUnwrapped ==
    (fitted /\ FitsOnSingleLines(input)) =>
        /\ ~DblLt(currentScaleFactor, 100)
        /\ \A i \in 1..Len(wrappedTextData) : Len(wrappedTextData[i].lines) <= 1

\* C12 amended: for segments that fit the content box at scale 1.0 on single
\* lines, the auto-fit loop ends with a scale factor of at least 1.0 and with
\* no segment wrapped onto more than three lines, the title onto no more
\* than two.
C12_FittingTextScaledUp ==
    (fitted /\ FitsOnSingleLines(input)) =>
        /\ ~DblLt(currentScaleFactor, 100)
        /\ \A i \in 1..Len(wrappedTextData) :
              /\ Len(wrappedTextData[i].lines) <= 3
              /\ wrappedTextData[i].hasFlag => Len(wrappedTextData[i].lines) <= 2

\* text that fits at 1.0 on single lines, shown with the address, after the
\* loop shrank it from 2.5 and stopped with a segment on several lines
C12_Witness ==
    /\ fitted
    /\ FitsOnSingleLines(input)
    /\ input.showFullAddress
    /\ trials > 1
    /\ \E i \in 1..Len(wrappedTextData) : Len(wrappedTextData[i].lines) > 1

(***************************************************************************)
(* Claims about the draw sequence                                          *)
(***************************************************************************)

CountOps(layer) == Cardinality({i \in 1..Len(ops) : ops[i] = layer})

Painted(layer) == \E i \in 1..Len(ops) : ops[i] = layer

\* wrapped lines over all blocks of wrappedTextData
WrappedLines == SumSeq([i \in 1..Len(wrappedTextData) |-> Len(wrappedTextData[i].lines)])

\* C9: whatever way the badge-icon, map-tile and flag loads settle (the map
\* load also by 'No API key'), drawOverlay never rejects, and when it has
\* completed the info box and every wrapped text line are drawn, and a failed
\* map tile is replaced by the placeholder fill with the label 'Map'.
C9_CompletesDespiteFailedLoads ==
    /\ ovPc # "rejected"
    /\ (renderer = "direct" /\ ovPc = "done") =>
          /\ CountOps("infoBox") = 1
          /\ CountOps("text") = WrappedLines
          /\ loads.map # "ok" =>
                /\ Painted("mapPlaceholder")
                /\ Painted("mapLabel")
                /\ ~Painted("map")

\* every load failed, the map load for want of an API key, and the overlay
\* is complete
C9_Witness ==
    /\ renderer = "direct"
    /\ ovPc = "done"
    /\ loads.icon = "failed"
    /\ loads.map = "noKey"
    /\ loads.flag = "failed"
    /\ WrappedLines > 3

BadgeLayers == {"badgeBg", "badgeIcon", "badgeText"}

PanelLayers == {"infoBox", "barBg"}

MapLayers == {"map", "mapLogo", "mapPlaceholder", "mapLabel"}

TextLayers == {"text", "flag"}

WeatherLayers == {"weatherIcon", "weatherEmoji", "tempC", "tempF"}

\* the order the claim states: photo, panel background, mini-map, text,
\* badge and/or weather block
ClaimedRank(layer) ==
    CASE layer = "photo" -> 1
      [] layer \in PanelLayers -> 2
      [] layer \in MapLayers -> 3
      [] layer \in TextLayers -> 4
      [] layer \in BadgeLayers \cup WeatherLayers -> 5

\* the order of the draw sequences: photo, badge (boxed renderer), panel
\* background, mini-map, text, weather block (bar renderer)
PaintRank(layer) ==
    CASE layer = "photo" -> 1
      [] layer \in BadgeLayers -> 2
      [] layer \in PanelLayers -> 3
      [] layer \in MapLayers -> 4
      [] layer \in TextLayers -> 5
      [] layer \in WeatherLayers -> 6

\* C10 as stated: the layers are painted in the order photo, panel
\* background(s), mini-map or placeholder, text block, and watermark badge
\* and/or weather block last, however the loads settle.
C10_BadgeAndWeatherLast ==
    \A i, j \in 1..Len(ops) : i < j => ClaimedRank(ops[i]) <= ClaimedRank(ops[j])

\* C10 amended: the layers are painted in the fixed order photo, watermark
\* badge (boxed renderer), panel background, mini-map or placeholder, text
\* block, weather block (bar renderer) last, however the loads settle; a
\* complete composite has the photo, one panel background, the map or its
\* placeholder, and the text.
C10_FixedPaintOrder ==
    /\ \A i, j \in 1..Len(ops) : i < j => PaintRank(ops[i]) <= PaintRank(ops[j])
    /\ ovPc = "done" =>
          /\ ops[1] = "photo"
          /\ CountOps("photo") = 1
          /\ CountOps("infoBox") + CountOps("barBg") = 1
          /\ Painted("map") # Painted("mapPlaceholder")
          /\ Painted("text")
          /\ renderer = "direct" => Painted("badgeBg") /\ Painted("badgeText")

\* a complete boxed composite with badge icon, map tile and flag drawn
C10_Witness ==
    /\ renderer = "direct"
    /\ ovPc = "done"
    /\ Painted("badgeIcon")
    /\ Painted("map")
    /\ Painted("flag")

\* the text of each block of wrappedTextData: its lines joined again
SegmentTexts == [i \in 1..Len(wrappedTextData) |-> joinSpaces(wrappedTextData[i].lines)]

\* C14: the segments laid out and drawn are exactly the title, then the full
\* address if and only if showFullAddress is set, then the lat/long line if
\* and only if showLatLong is set, then the timestamp, in that order; the
\* block height is computed from these segments only, and as many text lines
\* are drawn as were laid out.
C14_SegmentsFollowToggles ==
    fitted =>
        /\ SegmentTexts =
              <<"Ngaglik, Jawa Tengah, Indonesia">>
              \o (IF input.showFullAddress THEN <<joinSpaces(input.address)>> ELSE <<>>)
              \o (IF input.showLatLong THEN <<"Lat -7.597110d Long 110.949835d">> ELSE <<>>)
              \o <<"Jumat, 15/03/2024 14:30 GMT +07:00">>
        /\ totalTextHeight = BlockHeight
        /\ ovPc = "done" => CountOps("text") = WrappedLines

\* both toggles off: the title and the timestamp alone were laid out and drawn
C14_Witness ==
    /\ renderer = "direct"
    /\ ovPc = "done"
    /\ ~input.showFullAddress
    /\ ~input.showLatLong
    /\ Len(wrappedTextData) = 2
    /\ CountOps("text") = WrappedLines

\* the bar renderer has painted its centre column
barLaidOut == renderer = "offscreen" /\ ovPc \in {"weather", "done"}

\* C15: in the bar layout, without weather data the weather column is 0 wide,
\* no weather element is drawn and the centre column is overlayWidth -
\* miniMapWidth - gap; with weather data miniMapWidth + centerColWidth +
\* weatherColWidth + 2 * gap is the overlay width: either way the columns and
\* gaps exactly fill the overlay width.
C15_ColumnsFillOverlay ==
    barLaidOut =>
        /\ ~input.weatherData =>
              /\ weatherColWidth(input) = 0
              /\ \A l \in WeatherLayers : ~Painted(l)
              /\ ovPc = "done"
              /\ centerColWidth(input) = input.canvasW - barMiniMapWidth(input) - barGap(input)
              /\ barMiniMapWidth(input) + barGap(input) + centerColWidth(input) = input.canvasW
        /\ input.weatherData =>
              barMiniMapWidth(input) + barGap(input) + centerColWidth(input)
                  + barGap(input) + weatherColWidth(input) = input.canvasW

\* a bar composite finished without weather data, and its centre column is
\* wider than the map column
C15_Witness ==
    /\ barLaidOut
    /\ ovPc = "done"
    /\ ~input.weatherData
    /\ weatherColWidth(input) = 0
    /\ centerColWidth(input) > barMiniMapWidth(input)

\* A trial qualifies when its block height fits the available height and
\* none of its segments is over the line-count limits.
OverLimits(wtd) ==
    \E i \in 1..Len(wtd) :
        \/ Len(wtd[i].lines) > 3
        \/ (wtd[i].hasFlag /\ Len(wtd[i].lines) > 2)

Qualifies(in, csf) ==
    LET t == Trial(in, csf)
    IN  /\ t.totalTextHeight <= maxTextHeight(in) * 10
        /\ ~OverLimits(t.wrappedTextData)

\* C24: the scale the auto-fit loop accepts is the largest scale of the grid
\* 2.5, 2.49, ..., 0.5 at which the block height fits and no forced-shrink
\* condition holds: every larger grid scale was tried and rejected first
\* (one trial per grid scale, and a rejected trial did not qualify), and the
\* floor 0.5 is accepted only when no larger grid scale qualifies.
C24_LargestQualifyingGridScale ==
    /\ [](renderer = "direct" /\ ovPc = "fit" =>
             trials = StartScaleFactor - currentScaleFactor.n)
    /\ [][(ovPc = "fit" /\ ovPc' = "fit") =>
             ~Qualifies(input, currentScaleFactor)]_vars
    /\ [](fitted =>
             /\ currentScaleFactor.n >= minScaleFactor
             /\ currentScaleFactor.n <= StartScaleFactor
             /\ trials = StartScaleFactor - currentScaleFactor.n + 1
             /\ \/ Qualifies(input, currentScaleFactor)
                \/ currentScaleFactor.n = minScaleFactor)

\* C25: whenever the auto-fit loop accepts a scale above the floor, no
\* segment is wrapped onto more than 3 lines and the title (the segment that
\* reserves space for the flag) onto at most 2; a trial over either limit is
\* rejected even when its total height fits the box.
C25_LineLimitsAboveFloor ==
    /\ [](fitted /\ DblGt(currentScaleFactor, minScaleFactor) =>
             ~OverLimits(wrappedTextData))
    /\ [][(ovPc = "fit" /\ DblGt(currentScaleFactor, minScaleFactor)
              /\ OverLimits(wrappedTextData')) => ovPc' = "fit"]_vars

\* a scale above the floor was accepted right after a trial whose height
\* fitted but which was over the limits
C25_Witness ==
    /\ fitted
    /\ DblGt(currentScaleFactor, minScaleFactor)
    /\ trials > 1
    /\ LET t == Trial(input, Dbl(currentScaleFactor.n + 1))
       IN  /\ t.totalTextHeight <= maxTextHeight(input) * 10
           /\ OverLimits(t.wrappedTextData)

\* saves minus restores among the first k calls
RECURSIVE Balance(_, _)
Balance(cs, k) ==
    IF k = 0 THEN 0
    ELSE Balance(cs, k - 1) + (IF cs[k] = "save" THEN 1 ELSE -1)

\* C27: on every path through drawOverlay each ctx.restore() matches an
\* earlier unmatched ctx.save(): the state-stack depth never would drop
\* below its depth at entry, and it is the entry depth again when
\* drawOverlay returns.
C27_SaveRestoreBalanced ==
    /\ \A k \in 1..Len(ctxCalls) : Balance(ctxCalls, k) >= 0
    /\ ovPc = "done" => Balance(ctxCalls, Len(ctxCalls)) = 0

(***************************************************************************)
(* wrapText called on its own                                              *)
(***************************************************************************)

\* Longest text, in characters, the model enumerates.
MaxTextLen == 6

Chars == {"a", "b", " "}

\* all texts of at most n characters
RECURSIVE Texts(_)
Texts(n) ==
    IF n = 0 THEN {""}
    ELSE LET shorter == Texts(n - 1)
         IN  shorter \cup {t \o c : t \in shorter, c \in Chars}

\* ctx.font of the calls: with 2px and CharEm a character is 1px wide
WrapFontSize == 1 + 1

\* maxWidth of the calls, in 1/100 px: none to three characters wide
WrapWidths == {0, 100, 200, 300}

InitWrap ==
    /\ srcW = 1 /\ srcH = 1 /\ crop = NoCrop
    /\ ComponentIdle
    /\ OverlayIdle
    /\ LoaderIdle
    /\ arg \in {[fn |-> "wrapText", text |-> t, maxWidth |-> w] :
                    t \in Texts(MaxTextLen), w \in WrapWidths}
    /\ ret = NoRet

\* const wrapped = wrapText(ctx, text, maxWidth)
WrapTextCall ==
    /\ arg.fn = "wrapText"
    /\ ret = NoRet
    /\ ret' = [fn |-> "wrapText", lines |-> wrapText(WrapFontSize, arg.text, arg.maxWidth)]
    /\ UNCHANGED <<arg, cropVars, previewVars, exportVars, overlayVars, loaderVars>>

NextWrap == WrapTextCall

SpecWrap == InitWrap /\ [][NextWrap]_vars

\* out is made of runs of consecutive words of words, from index from on, in
\* order, each run joined by single spaces
RECURSIVE RunsOfWords(_, _, _)
RunsOfWords(out, words, from) ==
    \/ out = <<>>
    \/ \E a \in from..Len(words) : \E b \in a..Len(words) :
          /\ Head(out) = joinSpaces(SubSeq(words, a, b))
          /\ RunsOfWords(Tail(out), words, b + 1)

\* C13: wrapText never splits a word: every returned line is a run of
\* consecutive whole words of the text joined by single spaces, and a line
\* wider than maxWidth is exactly one word.
C13_WordsNeverSplit ==
    ret # NoRet =>
        /\ RunsOfWords(ret.lines, split(arg.text), 1)
        /\ \A k \in 1..Len(ret.lines) :
              measureText(ret.lines[k], WrapFontSize) > arg.maxWidth =>
                  /\ Len(split(ret.lines[k])) = 1
                  /\ \E i \in 1..Len(split(arg.text)) : split(arg.text)[i] = ret.lines[k]

\* a call that returned several lines, one of them a word wider than
\* maxWidth on a line of its own, another one two words that fit
C13_Witness ==
    /\ ret # NoRet
    /\ \E k \in 1..Len(ret.lines) : measureText(ret.lines[k], WrapFontSize) > arg.maxWidth
    /\ \E k \in 1..Len(ret.lines) :
          /\ measureText(ret.lines[k], WrapFontSize) <= arg.maxWidth
          /\ Len(split(ret.lines[k])) = 2

\* text is made of non-empty words separated by single spaces: no space at
\* either end and no two spaces in a row
SinglySpaced(text) ==
    /\ text # ""
    /\ SubSeq(text, 1, 1) # " "
    /\ SubSeq(text, Len(text), Len(text)) # " "
    /\ \A k \in 1..(Len(text) - 1) : SubSeq(text, k, k + 1) # "  "

\* C29: for a text of non-empty words separated by single spaces and any
\* maxWidth, the lines wrapText returns joined by single spaces are the
\* text again (no word dropped, duplicated or reordered), and no line is
\* empty.
C29_JoinedLinesGiveText ==
    (ret # NoRet /\ ret.fn = "wrapText" /\ SinglySpaced(arg.text)) =>
        /\ joinSpaces(ret.lines) = arg.text
        /\ \A k \in 1..Len(ret.lines) : ret.lines[k] # ""

\* three words wrapped onto two lines
C29_Witness ==
    /\ ret # NoRet /\ ret.fn = "wrapText"
    /\ SinglySpaced(arg.text)
    /\ Len(split(arg.text)) = 3
    /\ Len(ret.lines) = 1 + 1

-----------------------------------------------------------------------------
(* formatDateTime (dateUtils.ts).  A Date is the record of what its getters *)
(* return in local time: year, month (0..11), date, hours, minutes; getDay  *)
(* is computed from the calendar date.  Strings are built as the code       *)
(* builds them: String(n) is the decimal numeral, padStart(2, '0') pads on  *)
(* the left while the string is shorter than two characters.                *)

DAYS == <<"Minggu", "Senin", "Selasa", "Rabu", "Kamis", "Jumat", "Sabtu">>

MONTHS_SHORT ==
    <<"01", "02", "03", "04", "05", "06", "07", "08", "09", "10", "11", "12">>

Years == {2023, 2024}
Months == 0..11
Dates == {1, 9, 10, 15, 28}
Hours == 0..23
Minutes == {0, 5, 30}
Offsets == {"+07:00", "-03:30"}

\* Day of the week of a calendar date, 0 = Sunday (Date.prototype.getDay).
MonthShift == <<0, 3, 2, 5, 0, 3, 5, 1, 4, 6, 2, 4>>

getDay(date) ==
    LET y == IF date.month < 2 THEN date.year - 1 ELSE date.year
    IN  (y + (y \div 4) - (y \div 100) + (y \div 400)
           + MonthShift[date.month + 1] + date.date) % 7

String(n) == ToString(n)

padStartNone(str) == str

padStart2(str) == IF Len(str) < 2 THEN "0" \o str ELSE str

ampm(hours) == IF hours >= 12 THEN "PM" ELSE "AM"

hours12NoTwelve(hours) == hours % 12

\* hours % 12 || 12: a zero remainder is falsy and gives 12.
hours12(hours) == IF hours % 12 # 0 THEN hours % 12 ELSE 12

formatDateTime(date, timezoneOffset, use24h) ==
    LET dayName == DAYS[getDay(date) + 1]
        dd      == padStart2(String(date.date))
        mm      == MONTHS_SHORT[date.month + 1]
        yyyy    == String(date.year)
        min     == padStart2(String(date.minutes))
    IN  IF use24h
        THEN LET hh == padStart2(String(date.hours))
             IN  dayName \o ", " \o dd \o "/" \o mm \o "/" \o yyyy \o " "
                     \o hh \o ":" \o min \o " GMT " \o timezoneOffset
        ELSE LET hh == padStart2(String(hours12(date.hours)))
             IN  dayName \o ", " \o dd \o "/" \o mm \o "/" \o yyyy \o " "
                     \o hh \o ":" \o min \o " " \o ampm(date.hours)
                     \o " GMT " \o timezoneOffset

DateArgs ==
    { [fn |-> "formatDateTime",
       date |-> [year |-> y, month |-> m, date |-> d, hours |-> h, minutes |-> mi],
       timezoneOffset |-> o, use24h |-> u] :
        y \in Years, m \in Months, d \in Dates, h \in Hours, mi \in Minutes,
        o \in Offsets, u \in BOOLEAN }

InitDate ==
    /\ srcW = 1 /\ srcH = 1 /\ crop = NoCrop
    /\ ComponentIdle
    /\ OverlayIdle
    /\ LoaderIdle
    /\ arg \in DateArgs
    /\ ret = NoRet

FormatDateTimeCall ==
    /\ arg.fn = "formatDateTime"
    /\ ret = NoRet
    /\ ret' = [fn |-> "formatDateTime",
               text |-> formatDateTime(arg.date, arg.timezoneOffset, arg.use24h)]
    /\ UNCHANGED <<arg, cropVars, previewVars, exportVars, overlayVars, loaderVars>>

NextDate == FormatDateTimeCall

SpecDate == InitDate /\ [][NextDate]_vars

\* The decimal digits of a number, written out place by place.
Digit(d) == <<"0", "1", "2", "3", "4", "5", "6", "7", "8", "9">>[d + 1]

TwoDigits(n) == Digit((n \div 10) % 10) \o Digit(n % 10)

FourDigits(n) ==
    Digit((n \div 1000) % 10) \o Digit((n \div 100) % 10) \o TwoDigits(n)

DayName(d) ==
    CASE d = 0 -> "Minggu" [] d = 1 -> "Senin" [] d = 2 -> "Selasa"
      [] d = 3 -> "Rabu"   [] d = 4 -> "Kamis" [] d = 5 -> "Jumat"
      [] d = 6 -> "Sabtu"

DatePart(a) ==
    DayName(getDay(a.date)) \o ", " \o TwoDigits(a.date.date) \o "/"
        \o TwoDigits(a.date.month + 1) \o "/" \o FourDigits(a.date.year)

formatted == ret # NoRet /\ ret.fn = "formatDateTime"

\* C17: with use24h true the result is 'DayName, DD/MM/YYYY HH:MM GMT
\* <offset>': the day name comes from the table that starts at Sunday =
\* 'Minggu', the day, month, hour and minute are zero-padded to two digits,
\* and the offset string is appended unchanged; Friday 15 March 2024, 14:30,
\* '+07:00' gives 'Jumat, 15/03/2024 14:30 GMT +07:00'.
C17_Format24h ==
    (formatted /\ arg.use24h) =>
        /\ ret.text = DatePart(arg) \o " " \o TwoDigits(arg.date.hours) \o ":"
                          \o TwoDigits(arg.date.minutes) \o " GMT "
                          \o arg.timezoneOffset
        /\ (/\ arg.date = [year |-> 2024, month |-> 2, date |-> 15,
                           hours |-> 14, minutes |-> 30]
            /\ arg.timezoneOffset = "+07:00")
               => ret.text = "Jumat, 15/03/2024 14:30 GMT +07:00"

C17_Witness ==
    /\ formatted /\ arg.use24h
    /\ ret.text = "Minggu, 01/09/2024 05:05 GMT -03:30"

\* C18: with use24h false the hour is shown as hours mod 12 with 0 shown as
\* 12, zero-padded to two digits, followed by 'AM' when hours < 12 and 'PM'
\* otherwise (00:05 is '12:05 AM', 12:05 is '12:05 PM'); the day name, the
\* date, the minutes and the offset are as in the 24-hour format.
C18_Format12h ==
    (formatted /\ ~arg.use24h) =>
        LET h   == arg.date.hours
            h12 == IF h % 12 = 0 THEN 12 ELSE h % 12
            clock == TwoDigits(h12) \o ":" \o TwoDigits(arg.date.minutes)
                         \o " " \o (IF h < 12 THEN "AM" ELSE "PM")
        IN  /\ ret.text = DatePart(arg) \o " " \o clock \o " GMT "
                              \o arg.timezoneOffset
            /\ (h = 0 /\ arg.date.minutes = 5) => clock = "12:05 AM"
            /\ (h = 12 /\ arg.date.minutes = 5) => clock = "12:05 PM"

C18_Witness ==
    /\ formatted /\ ~arg.use24h
    /\ ret.text = "Jumat, 15/03/2024 12:05 AM GMT +07:00"

-----------------------------------------------------------------------------
(* loadFlagImage (canvasRenderer.ts): the file name of a country's flag.    *)
(* A country code is a string of letters; the code upper-cases it, maps     *)
(* each character to the regional-indicator code point of its letter,       *)
(* writes that in hexadecimal and joins the results with '_' after 'u'.     *)

UpperLetters == "ABCDEFGHIJKLMNOPQRSTUVWXYZ"
LowerLetters == "abcdefghijklmnopqrstuvwxyz"

CharAt(str, k) == SubSeq(str, k, k)

IndexIn(c, str) == CHOOSE k \in 1..Len(str) : CharAt(str, k) = c

IsIn(c, str) == \E k \in 1..Len(str) : CharAt(str, k) = c

\* The UTF-16 code unit of a letter: 'A' is 65, 'a' is 97.
charCodeAt(c) ==
    IF IsIn(c, UpperLetters) THEN 64 + IndexIn(c, UpperLetters)
                             ELSE 96 + IndexIn(c, LowerLetters)

toUpperCaseNone(str) == str

RECURSIVE toUpperCase(_)
toUpperCase(str) ==
    IF str = "" THEN ""
    ELSE LET c == CharAt(str, 1)
         IN  (IF IsIn(c, LowerLetters)
                 THEN CharAt(UpperLetters, IndexIn(c, LowerLetters))
                 ELSE c) \o toUpperCase(SubSeq(str, 2, Len(str)))

HexDigits == "0123456789abcdef"

\* Number.prototype.toString(16): lowercase digits, most significant first.
RECURSIVE toString16(_)
toString16(n) ==
    IF n < 16 THEN CharAt(HexDigits, n + 1)
    ELSE toString16(n \div 16) \o CharAt(HexDigits, (n % 16) + 1)

RegionalIndicatorA == 127462

codesOf(cc) ==
    [k \in 1..Len(cc) |->
        toString16(RegionalIndicatorA + charCodeAt(CharAt(cc, k)) - 65)]

RECURSIVE join(_, _)
join(parts, sep) ==
    IF Len(parts) = 0 THEN ""
    ELSE IF Len(parts) = 1 THEN parts[1]
    ELSE parts[1] \o sep \o join(Tail(parts), sep)

flagFilename(countryCode) == "u" \o join(codesOf(toUpperCase(countryCode)), "_")

AllLetters == UpperLetters \o LowerLetters

CountryCodes ==
    { CharAt(AllLetters, a) \o CharAt(AllLetters, b) :
        a \in 1..Len(AllLetters), b \in 1..Len(AllLetters) } \cup {""}

InitFlag ==
    /\ srcW = 1 /\ srcH = 1 /\ crop = NoCrop
    /\ ComponentIdle
    /\ OverlayIdle
    /\ LoaderIdle
    /\ arg \in { [fn |-> "loadFlagImage", countryCode |-> cc] : cc \in CountryCodes }
    /\ ret = NoRet

\* The promise rejects at once for an empty code; otherwise the image source
\* is set to the flag's path.
LoadFlagImageCall ==
    /\ arg.fn = "loadFlagImage"
    /\ ret = NoRet
    /\ ret' = IF arg.countryCode = ""
                 THEN [fn |-> "loadFlagImage", rejected |-> TRUE, src |-> ""]
                 ELSE [fn |-> "loadFlagImage", rejected |-> FALSE,
                       src |-> "/flags/" \o flagFilename(arg.countryCode) \o ".png"]
    /\ UNCHANGED <<arg, cropVars, previewVars, exportVars, overlayVars, loaderVars>>

NextFlag == LoadFlagImageCall

SpecFlag == InitFlag /\ [][NextFlag]_vars

flagRequested == ret # NoRet /\ ret.fn = "loadFlagImage" /\ ~ret.rejected

\* The position in the alphabet (0..25) of a letter of either case.
LetterIndex(c) ==
    IF IsIn(c, UpperLetters) THEN IndexIn(c, UpperLetters) - 1
                             ELSE IndexIn(c, LowerLetters) - 1

\* 0x1F1E6 + i for i in 0..25, written digit by digit: 1f1e6 .. 1f1ff.
IndicatorHex(i) ==
    "1f1" \o (IF i < 10 THEN "e" ELSE "f") \o CharAt(HexDigits, ((6 + i) % 16) + 1)

\* The letter pair a flag file name of the form uXXXXX_XXXXX stands for,
\* read back from the last two hexadecimal digits of each half.
HexValue(c) == IndexIn(c, HexDigits) - 1

LetterOfHalf(half) ==
    CharAt(UpperLetters,
           16 * HexValue(CharAt(half, 4)) + HexValue(CharAt(half, 5)) - 230 + 1)

ReadBack(name) ==
    LetterOfHalf(SubSeq(name, 2, 6)) \o LetterOfHalf(SubSeq(name, 8, 12))

FileNameOf(src) == SubSeq(src, 8, Len(src) - 4)

\* C19: the flag file name of a two-letter country code is 'u' followed by
\* the lowercase hexadecimal of 0x1F1E6 + the alphabet index of each letter
\* of the upper-cased code, joined by '_'; 'ID' and 'id' both give
\* 'u1f1ee_1f1e9'; and the upper-cased code can be read back from the name,
\* so distinct codes give distinct names.
C19_FlagFilename ==
    flagRequested =>
        LET cc   == arg.countryCode
            name == FileNameOf(ret.src)
        IN  /\ ret.src = "/flags/" \o name \o ".png"
            /\ name = "u" \o IndicatorHex(LetterIndex(CharAt(cc, 1)))
                          \o "_" \o IndicatorHex(LetterIndex(CharAt(cc, 2)))
            /\ cc \in {"ID", "id"} => name = "u1f1ee_1f1e9"
            /\ ReadBack(name) = CharAt(UpperLetters, LetterIndex(CharAt(cc, 1)) + 1)
                                  \o CharAt(UpperLetters, LetterIndex(CharAt(cc, 2)) + 1)

C19_Witness ==
    /\ flagRequested
    /\ arg.countryCode = "id"
    /\ ret.src = "/flags/u1f1ee_1f1e9.png"

-----------------------------------------------------------------------------
(* loadGoogleMaps (lib/googleMaps): the one script loader of the Maps SDK,  *)
(* called from the effects of MapSelector and DateTimePicker.               *)

\* loadGoogleMaps calls the model follows.
MaxLoadCalls == 6

\* GOOGLE_MAPS_API_KEY is a non-empty string literal.
apiKeyConfigured == TRUE

InitMaps ==
    /\ srcW = 1 /\ srcH = 1 /\ crop = NoCrop
    /\ ComponentIdle
    /\ OverlayIdle
    /\ CallIdle
    /\ LoaderIdle

\* The cached promise never handed out again.
returnsCachedNever(lp) == FALSE

\* if (loadPromise) return loadPromise;
returnsCached(lp) == lp # 0

\* script.onerror leaving loadPromise as it is.
onerrorLoadPromiseKept(lp) == lp

\* script.onerror = () => { loadPromise = null; ... }
onerrorLoadPromise(lp) == 0

\* loadGoogleMaps():
\*   if (window.google?.maps) return Promise.resolve();
\*   if (loadPromise) return loadPromise;
\*   loadPromise = new Promise((resolve, reject) => {
\*     if (!GOOGLE_MAPS_API_KEY) { reject(...); return; }
\*     script = ...; window.__initGoogleMaps = () => { delete ...; resolve() };
\*     script.onerror = ...; document.head.appendChild(script) });
\*   return loadPromise;
LoadGoogleMapsCall ==
    /\ Len(returned) < MaxLoadCalls
    /\ IF google
          THEN /\ returned' = Append(returned, 0)
               /\ UNCHANGED <<loadPromise, promises, scripts, initGoogleMaps>>
          ELSE IF returnsCached(loadPromise)
          THEN /\ returned' = Append(returned, loadPromise)
               /\ UNCHANGED <<loadPromise, promises, scripts, initGoogleMaps>>
          ELSE LET p == Len(promises) + 1
               IN  /\ loadPromise' = p
                   /\ returned' = Append(returned, p)
                   /\ IF apiKeyConfigured
                         THEN /\ promises' = Append(promises, "pending")
                              /\ scripts' = Append(scripts, [promise |-> p, state |-> "loading"])
                              /\ initGoogleMaps' = p
                         ELSE /\ promises' = Append(promises, "rejected")
                              /\ UNCHANGED <<scripts, initGoogleMaps>>
    /\ UNCHANGED <<google, cropVars, previewVars, exportVars, overlayVars, callVars>>

\* The script of element k has loaded and run: the SDK defines
\* window.google.maps and calls the function named by callback=, 
\* window.__initGoogleMaps, which deletes itself and resolves its promise.
ScriptLoads(k) ==
    /\ k \in 1..Len(scripts)
    /\ scripts[k].state = "loading"
    /\ scripts' = [scripts EXCEPT ![k].state = "loaded"]
    /\ google' = TRUE
    /\ IF initGoogleMaps # 0
          THEN /\ promises' = [promises EXCEPT ![initGoogleMaps] =
                                  IF @ = "pending" THEN "resolved" ELSE @]
               /\ initGoogleMaps' = 0
          ELSE UNCHANGED <<promises, initGoogleMaps>>
    /\ UNCHANGED <<loadPromise, returned, cropVars, previewVars, exportVars,
                   overlayVars, callVars>>

\* script.onerror of element k: loadPromise = null; reject(new Error(...))
ScriptErrors(k) ==
    /\ k \in 1..Len(scripts)
    /\ scripts[k].state = "loading"
    /\ scripts' = [scripts EXCEPT ![k].state = "error"]
    /\ loadPromise' = onerrorLoadPromise(loadPromise)
    /\ promises' = [promises EXCEPT ![scripts[k].promise] =
                       IF @ = "pending" THEN "rejected" ELSE @]
    /\ UNCHANGED <<google, initGoogleMaps, returned, cropVars, previewVars,
                   exportVars, overlayVars, callVars>>

NextMaps ==
    \/ LoadGoogleMapsCall
    \/ \E k \in 1..MaxLoadCalls : ScriptLoads(k)
    \/ \E k \in 1..MaxLoadCalls : ScriptErrors(k)

SpecMaps == InitMaps /\ [][NextMaps]_vars

\* a load is pending: a script element is in the document and has neither
\* loaded nor failed
Loading == {k \in 1..Len(scripts) : scripts[k].state = "loading"}

called == Len(returned') = Len(returned) + 1

\* C26: whatever the interleaving of loadGoogleMaps calls, at most one maps
\* script is appended while a load is pending or after one has succeeded: no
\* two scripts are loading at once and a script that loaded is the last one
\* appended; a call made while a load is pending returns the pending promise
\* and appends nothing; a call made once the SDK is there returns a resolved
\* promise and appends nothing.
C26_OneScriptAtATime ==
    /\ [](Cardinality(Loading) <= 1)
    /\ [](\A k \in 1..Len(scripts) : scripts[k].state = "loaded" => k = Len(scripts))
    /\ [][(called /\ Loading # {}) =>
             /\ scripts' = scripts
             /\ \A k \in Loading : returned'[Len(returned')] = scripts[k].promise]_vars
    /\ [][(called /\ google) =>
             /\ scripts' = scripts
             /\ returned'[Len(returned')] = 0]_vars

\* two calls got the same pending promise, and a later call found the SDK
C26_Witness ==
    /\ Len(returned) = 3
    /\ returned[1] = returned[1 + 1]
    /\ returned[3] = 0
    /\ Len(scripts) = 1

\* C30: a failed script load does not poison the loader: when the script
\* reports an error the pending promise (and so every caller that holds it)
\* is rejected and the cached promise is cleared; the next loadGoogleMaps
\* call appends a new script; and the cached promise is non-null only while
\* its load is pending or has succeeded.
C30_FailedLoadNotCached ==
    /\ [](loadPromise # 0 => promises[loadPromise] \in {"pending", "resolved"})
    /\ [][\A k \in Loading :
             scripts'[k].state = "error" =>
                 /\ promises'[scripts[k].promise] = "rejected"
                 /\ loadPromise' = 0]_vars
    /\ [][(called /\ ~google /\ Loading = {}) =>
             /\ Len(scripts') = Len(scripts) + 1
             /\ scripts'[Len(scripts')].state = "loading"
             /\ promises'[returned'[Len(returned')]] = "pending"]_vars

\* the first load failed with two callers waiting, the next call's load
\* succeeded
C30_Witness ==
    /\ Len(returned) = 3
    /\ returned[1] = returned[1 + 1]
    /\ promises[returned[1]] = "rejected"
    /\ promises[returned[3]] = "resolved"
    /\ google
    /\ loadPromise = returned[3]

=============================================================================
